---------------------------- MODULE Spec2Model ----------------------------
(***************************************************************************)
(* A model of the RAG backend (chisa-dev/simple-rag-api): the document    *)
(* pipeline of services/ragService.js, utils/documentProcessor.js,        *)
(* utils/vectorStore.js and utils/contentGenerator.js.                    *)
(*                                                                         *)
(* Strings are sequences of one-character strings; a fixed literal of the *)
(* program (a placeholder, a canned message) is one symbol of a sequence. *)
(* uuidv4() values are tuples that are unique by construction.            *)
(***************************************************************************)
EXTENDS Integers, Sequences, FiniteSets, TLC

(***************************************************************************)
(* Bounds of the model.                                                    *)
(***************************************************************************)
\* number of request slots; each slot runs one request
MaxReqs == 2
\* largest `retries` argument tried for generateEmbedding in SpecEmbed
MaxRetries == 5
\* the largest limit a direct caller of search passes
MaxLimit == 2
\* the largest maxChunks processFile is called with on scaled documents
MaxChunksArg == 2
\* the chunk size and the overlap scaled documents are chunked by
ScaledChunkSize == 2
ScaledOverlap == 1
\* the chunker's inputs: texts of up to MaxTextLen characters, chunk sizes of
\* 1..MaxChunkSize, overlaps of 0..MaxOverlap
MaxTextLen == 5
MaxChunkSize == 6
MaxOverlap == 2
\* the largest number of documents a direct caller passes to addDocuments
MaxDocuments == 201

(***************************************************************************)
(* Program constants.                                                      *)
(***************************************************************************)
\* documentProcessor.js:207  splitTextIntoChunks(text, 1000, 200, metadata)
ChunkSize == 1000
Overlap == 200
\* documentProcessor.js:194  maxChunks = 25
DefaultMaxChunks == 25
\* documentProcessor.js:224  BATCH_SIZE = 5
BATCH_SIZE == 5
\* documentProcessor.js:125  retries = 3
DefaultRetries == 3
\* documentProcessor.js:125  timeoutMs = 10000
DefaultTimeoutMs == 10000
\* vectorStore.js:129  batchSize = 100
batchSize == 100
\* ragService.js (part_002:126-127)  limit = 5, minScore = 0.7 (in tenths)
DefaultLimit == 5
DefaultMinScore == 7

GLOBAL_COLLECTION_NAME == "global_documents"

(***************************************************************************)
(* String helpers (String.prototype.trim, slice, split).                   *)
(***************************************************************************)
\* the characters \s of the modelled alphabet
WS == {" ", "\n"}

Max(S) == CHOOSE x \in S : \A y \in S : y <= x

\* s occurs in t as a contiguous piece (t.includes(s))
Infix(s, t) ==
  \E a \in 1..(Len(t) + 1) :
    a + Len(s) - 1 <= Len(t) /\ SubSeq(t, a, a + Len(s) - 1) = s

Digit(d) ==
  CASE d = 0 -> "0" [] d = 1 -> "1" [] d = 2 -> "2" [] d = 3 -> "3"
    [] d = 4 -> "4" [] d = 5 -> "5" [] d = 6 -> "6" [] d = 7 -> "7"
    [] d = 8 -> "8" [] d = 9 -> "9"

RECURSIVE Decimal(_)
\* the decimal digits of a natural number, as a template literal prints it
Decimal(n) ==
  IF n < 10 THEN <<Digit(n)>> ELSE Decimal(n \div 10) \o <<Digit(n % 10)>>
Min(a, b) == IF a <= b THEN a ELSE b

RECURSIVE TrimLeft(_)
TrimLeft(s) == IF s # <<>> /\ Head(s) \in WS THEN TrimLeft(Tail(s)) ELSE s

RECURSIVE TrimRight(_)
TrimRight(s) ==
  IF s # <<>> /\ s[Len(s)] \in WS THEN TrimRight(SubSeq(s, 1, Len(s) - 1)) ELSE s

Trim(s) == TrimRight(TrimLeft(s))

\* s.slice(-n): -0 is 0, so slice(-0) is the whole string
SliceLast(s, n) ==
  IF n = 0 \/ n >= Len(s) THEN s ELSE SubSeq(s, Len(s) - n + 1, Len(s))

\* the index where a match of /\n\s*\n/ starting at i ends, 0 if none:
\* \s* is greedy and backtracks to the last "\n" of the whitespace run
MatchEnd(s, i) ==
  IF s[i] # "\n" THEN 0
  ELSE LET ends == {k \in (i + 1)..Len(s) :
                      /\ s[k] = "\n"
                      /\ \A m \in (i + 1)..k : s[m] \in WS}
       IN IF ends = {} THEN 0 ELSE Max(ends)

RECURSIVE SplitFrom(_, _, _)
SplitFrom(s, i, start) ==
  IF i > Len(s) THEN <<SubSeq(s, start, Len(s))>>
  ELSE IF MatchEnd(s, i) > 0
       THEN <<SubSeq(s, start, i - 1)>>
              \o SplitFrom(s, MatchEnd(s, i) + 1, MatchEnd(s, i) + 1)
       ELSE SplitFrom(s, i + 1, start)

\* text.split(/\n\s*\n/)
SplitParagraphs(text) == SplitFrom(text, 1, 1)

(***************************************************************************)
(* splitTextIntoChunks: the loop over the paragraphs, its state being      *)
(* [chunks, currentChunk]; a chunk's id is filled in by uuid(k).           *)
(***************************************************************************)
ChunkStep(st, paragraph, chunkSize, overlap) ==
  IF Len(st.currentChunk) + Len(paragraph) > chunkSize /\ Len(st.currentChunk) > 0
  THEN [chunks |-> Append(st.chunks, Trim(st.currentChunk)),
        currentChunk |->
          (IF Len(st.currentChunk) > overlap
           THEN SliceLast(st.currentChunk, overlap)
           ELSE st.currentChunk) \o <<" ">> \o paragraph]
  ELSE [chunks |-> st.chunks,
        currentChunk |->
          st.currentChunk
            \o (IF st.currentChunk # <<>> THEN <<"\n", "\n">> ELSE <<>>)
            \o paragraph]

RECURSIVE ChunkLoop(_, _, _, _)
ChunkLoop(st, paragraphs, chunkSize, overlap) ==
  IF paragraphs = <<>> THEN st
  ELSE ChunkLoop(ChunkStep(st, Head(paragraphs), chunkSize, overlap),
                 Tail(paragraphs), chunkSize, overlap)

\* the contents of the chunks closed in the loop, the last buffer left out
ChunkContentsWithoutLast(text, chunkSize, overlap) ==
  IF text = <<>> THEN <<>>
  ELSE ChunkLoop([chunks |-> <<>>, currentChunk |-> <<>>],
                 SplitParagraphs(text), chunkSize, overlap).chunks

\* the contents of the chunks with the last buffer pushed as it is
ChunkContentsUntrimmed(text, chunkSize, overlap) ==
  IF text = <<>> THEN <<>>
  ELSE LET st == ChunkLoop([chunks |-> <<>>, currentChunk |-> <<>>],
                           SplitParagraphs(text), chunkSize, overlap)
       IN IF Len(Trim(st.currentChunk)) > 0
          THEN Append(st.chunks, st.currentChunk)
          ELSE st.chunks

\* the contents of the chunks, in order
ChunkContents(text, chunkSize, overlap) ==
  IF text = <<>> THEN <<>>
  ELSE LET st == ChunkLoop([chunks |-> <<>>, currentChunk |-> <<>>],
                           SplitParagraphs(text), chunkSize, overlap)
       IN IF Len(Trim(st.currentChunk)) > 0
          THEN Append(st.chunks, Trim(st.currentChunk))
          ELSE st.chunks

\* identifiers that repeat from one owner to the next
uuidPerKind(kind, owner, k) == [valid |-> TRUE, val |-> <<kind, 0, k>>]

\* uuidv4(): the k-th identifier of a kind generated on behalf of owner
uuid(kind, owner, k) == [valid |-> TRUE, val |-> <<kind, owner, k>>]

splitTextIntoChunks(text, chunkSize, overlap, metadata, owner) ==
  LET cs == ChunkContents(text, chunkSize, overlap)
  IN [k \in 1..Len(cs) |->
        [id |-> uuid("chunk", owner, k), content |-> cs[k], metadata |-> metadata]]


(***************************************************************************)
(* Uploaded files.  originalname is [stem, ext]; text is the text the      *)
(* document holds (what a reader of the file sees).                        *)
(***************************************************************************)
Reqs == 1..MaxReqs

TwoParagraphs == <<"X", "\n", "\n", "Y">>

FileNames == {[stem |-> "notes", ext |-> ".txt"],
              [stem |-> "paper", ext |-> ".PDF"]}

FileTexts == {TwoParagraphs, <<" ">>}

\* multer's diskStorage: a unique path per upload
UploadPath(r) == <<"uploads", r>>

\* the size in bytes of an upload the limit lets through
SmallSize == 1

Files(r) == {[originalname |-> n, path |-> UploadPath(r),
              size |-> SmallSize, text |-> t] :
               n \in FileNames, t \in FileTexts}

\* String.prototype.toLowerCase on the extensions in use
ToLowerCase(ext) == IF ext = ".PDF" THEN ".pdf" ELSE ext

\* String.prototype.substring(1) on the extensions in use: drops the dot
Substring1(e) ==
  CASE e = ".txt" -> "txt"
    [] e = ".pdf" -> "pdf"
    [] e = ".docx" -> "docx"
    [] e = ".png" -> "png"
    [] e = ".exe" -> "exe"
    [] OTHER -> ""

\* path.extname(file.originalname).toLowerCase().substring(1)
fileExtension(file) == Substring1(ToLowerCase(file.originalname.ext))

\* the switch of indexDocument
fileTypeOf(extension) ==
  CASE extension = "pdf" -> "pdf"
    [] extension \in {"docx", "doc"} -> "docx"
    [] extension \in {"jpg", "jpeg", "png"} -> "image"
    [] extension \in {"ppt", "pptx"} -> "ppt"
    [] extension = "txt" -> "text"
    [] OTHER -> "text"

\* file types for which extractTextFromFile reads and parses the file
ParsedTypes == {"pdf", "docx"}

\* extractTextFromFile: parsed is the outcome of readFile and the parser
extractTextFromFile(file, fileType, parsed) ==
  CASE fileType \in ParsedTypes ->
         IF parsed THEN file.text
         ELSE <<"[Error extracting content from file: ", file.path, "]">>
    [] fileType = "image" -> <<"[Image: ", file.path, "]">>
    [] fileType = "ppt" -> <<"[PowerPoint: ", file.path, "]">>
    [] OTHER -> <<"[Unsupported file type: ", fileType, "]">>

(***************************************************************************)
(* generateEmbedding, one call as a task:                                  *)
(*   st       "await" (provider request raced against the timer),         *)
(*            "backoff" (waiting before the next attempt), "done",         *)
(*            "raised"                                                     *)
(*   attempt  the loop counter; timer: a timeout is armed for the         *)
(*            attempt's request; wait: the backoff wait in progress (ms); *)
(*            waits: the number of backoff waits so far; requests: the    *)
(*            number of createEmbedding requests issued so far;           *)
(*            abandoned: the requests whose timer fired first and that    *)
(*            the provider has not answered yet (nothing cancels them)    *)
(***************************************************************************)
generateMockEmbedding == [src |-> "mock", of |-> <<>>]

RECURSIVE CollapseNewlines(_)
\* replace(/\n+/g, ' ')
CollapseNewlines(s) ==
  IF s = <<>> THEN <<>>
  ELSE IF Head(s) = "\n"
       THEN IF Len(s) > 1 /\ s[2] = "\n" THEN CollapseNewlines(Tail(s))
            ELSE <<" ">> \o CollapseNewlines(Tail(s))
       ELSE <<Head(s)>> \o CollapseNewlines(Tail(s))

\* text.trim().replace(/\n+/g, ' ').slice(0, 8000)
EmbeddingInput(text) ==
  LET t == CollapseNewlines(Trim(text))
  IN IF Len(t) > 8000 THEN SubSeq(t, 1, 8000) ELSE t

\* response.data.data[0].embedding
ProviderEmbedding(text) == [src |-> "openai", of |-> EmbeddingInput(text)]

EmbedTask(text, retries, attempt, st, timer, embedding) ==
  [text |-> text, retries |-> retries, attempt |-> attempt, st |-> st,
   timer |-> timer, embedding |-> embedding, wait |-> 0, waits |-> 0,
   requests |-> IF st = "await" THEN 1 ELSE 0, abandoned |-> 0,
   timeoutMs |-> DefaultTimeoutMs, lastError |-> "none"]

NoEmbedding == [src |-> "none", of |-> <<>>]

\* the provider request of the first attempt awaited as it is, with no timer
StartEmbeddingUnraced(text, retries, configured) ==
  IF retries < 1 \/ ~configured
  THEN EmbedTask(text, retries, 1, "done", FALSE, generateMockEmbedding)
  ELSE EmbedTask(text, retries, 1, "await", FALSE, NoEmbedding)

\* the call up to its first await: the loop is skipped when retries < 1,
\* the mock is returned when no provider is configured; otherwise the
\* provider request is raced against a timer (Promise.race, lines 139-150)
StartEmbedding(text, retries, configured) ==
  IF retries < 1 \/ ~configured
  THEN EmbedTask(text, retries, 1, "done", FALSE, generateMockEmbedding)
  ELSE EmbedTask(text, retries, 1, "await", TRUE, NoEmbedding)

\* `Embedding request timed out after ${timeoutMs}ms`
TimeoutMessage(timeoutMs) ==
  <<"E", "m", "b", "e", "d", "d", "i", "n", "g", " ", "r", "e", "q", "u",
    "e", "s", "t", " ", "t", "i", "m", "e", "d", " ", "o", "u", "t", " ",
    "a", "f", "t", "e", "r", " ">>
    \o Decimal(timeoutMs) \o <<"m", "s">>

\* the messages of the errors a provider request is rejected with: a network
\* fault, and the HTTP client's message for a 429 response
NetworkErrorMessage ==
  <<"N", "e", "t", "w", "o", "r", "k", " ", "E", "r", "r", "o", "r">>
TooManyRequestsMessage ==
  <<"R", "e", "q", "u", "e", "s", "t", " ", "f", "a", "i", "l", "e", "d",
    " ", "w", "i", "t", "h", " ", "s", "t", "a", "t", "u", "s", " ", "c",
    "o", "d", "e", " ", "4", "2", "9">>

ProviderMessage(answer) ==
  IF answer = "rate limit" THEN TooManyRequestsMessage ELSE NetworkErrorMessage

\* isRateLimit of the catch block (lines 158-162)
IsRateLimit(message) ==
  \/ Infix(
    <<"r", "a", "t", "e", " ", "l", "i", "m", "i", "t">>, message)
  \/ Infix(<<"4", "2", "9">>, message)
  \/ Infix(
    <<"t", "o", "o", " ", "m", "a", "n", "y", " ", "r", "e", "q", "u", "e",
    "s", "t", "s">>, message)

\* Math.min(baseWaitTime * Math.pow(2, attempt - 1), 15000)
WaitTime(isRateLimit, attempt) ==
  Min((IF isRateLimit THEN 2000 ELSE 1000) * (2 ^ (attempt - 1)), 15000)

\* a catch block that falls back to the mock one attempt late
EmbedFailedOnceMore(t, isRateLimit) ==
  IF t.attempt > t.retries
  THEN [t EXCEPT !.st = "done", !.embedding = generateMockEmbedding,
                 !.timer = FALSE, !.lastError = "none"]
  ELSE [t EXCEPT !.st = "backoff", !.timer = FALSE,
                 !.wait = WaitTime(isRateLimit, t.attempt), !.waits = @ + 1]

\* the catch block of an attempt that failed, lastError being set; lastError
\* goes with the call's frame when the call returns
EmbedFailed(t, isRateLimit) ==
  IF t.attempt = t.retries
  THEN [t EXCEPT !.st = "done", !.embedding = generateMockEmbedding,
                 !.timer = FALSE, !.lastError = "none"]
  ELSE [t EXCEPT !.st = "backoff", !.timer = FALSE,
                 !.wait = WaitTime(isRateLimit, t.attempt), !.waits = @ + 1]

\* the provider answered first
EmbedSucceeded(t) ==
  [t EXCEPT !.st = "done", !.embedding = ProviderEmbedding(t.text),
            !.timer = FALSE, !.lastError = "none"]

\* the backoff wait is over: the next attempt issues its request
EmbedRetry(t) ==
  [t EXCEPT !.st = "await", !.attempt = @ + 1, !.timer = TRUE, !.wait = 0,
            !.requests = @ + 1]

\* the provider rejected the request (answer is "error" or "rate limit"): the
\* catch block runs with the provider's error
EmbedRejected(t, answer) ==
  EmbedFailed([t EXCEPT !.lastError = answer],
              IsRateLimit(ProviderMessage(answer)))

\* the timer won the race: the catch block runs with the timeout error, and
\* the request stays with the provider
EmbedTimedOut(t) ==
  EmbedFailed([t EXCEPT !.abandoned = @ + 1, !.lastError = "timeout"],
              IsRateLimit(TimeoutMessage(t.timeoutMs)))


(***************************************************************************)
(* State.                                                                  *)
(*   openai            whether OPENAI_API_KEY configures a provider        *)
(*   qdrant            the vector database: collection name -> points      *)
(*   indexedDocuments  the registry Map of ragService.js                   *)
(*   uploads           the temporary files on disk                         *)
(*   pc, loc           per request: where it is suspended, its locals      *)
(*   tasks             per request: the generateEmbedding calls awaited    *)
(***************************************************************************)
VARIABLES openai, qdrant, indexedDocuments, uploads, pc, loc, tasks

vars == <<openai, qdrant, indexedDocuments, uploads, pc, loc, tasks>>

\* a network call the request awaits, raced against a timer or not; the
\* service may answer it, fail it, or never answer
Issue(op, timer) == [op |-> op, timer |-> timer]
NoCall == Issue("none", FALSE)

NoFile == [originalname |-> [stem |-> "", ext |-> ""], path |-> <<>>,
           size |-> 0, text |-> <<>>]
NoRequest == [route |-> "none"]
NoId == [valid |-> FALSE, val |-> <<>>]
NoMetadata == [source_file |-> [stem |-> "", ext |-> ""], file_type |-> "",
               document_id |-> NoId]
NoResult == [success |-> FALSE, error |-> "none"]

Locals0 ==
  [kind |-> "none", owner |-> 0, file |-> NoFile, query |-> <<>>,
   documentId |-> NoId, fileType |-> "", metadata |-> NoMetadata,
   chunkSize |-> 0, overlap |-> 0, maxChunks |-> 0, text |-> <<>>,
   chunks |-> <<>>, i |-> 0, chunksWithEmbeddings |-> <<>>,
   processedDocuments |-> <<>>, collectionResult |-> NoResult,
   points |-> <<>>, j |-> 0, storeResult |-> NoResult,
   retries |-> 0, limit |-> 0, minScore |-> 0, queryEmbedding |-> NoEmbedding,
   searched |-> "none", searchResults |-> <<>>, searches |-> 0,
   completions |-> 0, answeredBy |-> "none",
   req |-> NoRequest, call |-> NoCall, result |-> NoResult]

Init ==
  /\ openai \in BOOLEAN
  /\ qdrant = <<>>
  /\ indexedDocuments = <<>>
  /\ uploads = {}
  /\ pc = [r \in Reqs |-> "idle"]
  /\ loc = [r \in Reqs |-> Locals0]
  /\ tasks = [r \in Reqs |-> <<>>]

\* the next suspension point of a request: its pc, locals and awaited tasks
Susp(p, l, t) == [pc |-> p, l |-> l, t |-> t]

Suspend(r, nx) ==
  /\ pc' = [pc EXCEPT ![r] = nx.pc]
  /\ loc' = [loc EXCEPT ![r] = nx.l]
  /\ tasks' = [tasks EXCEPT ![r] = nx.t]

(***************************************************************************)
(* vectorStore.js                                                          *)
(***************************************************************************)
\* collections.collections.some(c => c.name === collectionName)
Exists(db, collectionName) == collectionName \in DOMAIN db

\* generatePointId: a valid UUID is kept, anything else gets a new uuidv4()
generatePointId(id, fresh) == IF id.valid THEN id ELSE fresh

\* the point of one document: {original_id, content, ...doc.metadata}
PointOf(doc, fresh) ==
  [id |-> generatePointId(doc.id, fresh),
   vector |-> doc.embedding,
   payload |-> doc.metadata @@ [original_id |-> doc.id, content |-> doc.content]]

\* documents.map(doc => point)
PointsOf(documents, owner) ==
  [k \in 1..Len(documents) |-> PointOf(documents[k], uuid("point", owner, k))]

\* every point from j on, in one piece
BatchToEnd(points, j) == SubSeq(points, j + 1, Len(points))

\* points.slice(j, j + batchSize)
Batch(points, j) == SubSeq(points, j + 1, Min(j + batchSize, Len(points)))

\* Qdrant's upsert: a point replaces the stored point of the same id
Upserted(stored, batch) ==
  LET new == {batch[k] : k \in 1..Len(batch)}
  IN {p \in stored : \A q \in new : q.id # p.id} \cup new


(***************************************************************************)
(* indexDocument (ragService.js) with processFile (documentProcessor.js)   *)
(* and addDocuments / createCollection (vectorStore.js), cut at the        *)
(* awaits.                                                                 *)
(***************************************************************************)
\* processFile lines 225-227: the size of the batch at offset l.i
BatchLen(l) == Min(l.i + BATCH_SIZE, Len(l.chunks)) - l.i

\* processFile lines 232-238: the embedding calls of the batch, started together
EnterBatch(l, configured) ==
  Susp("embed", l,
       [k \in 1..BatchLen(l) |->
          StartEmbedding(l.chunks[l.i + k].content, DefaultRetries, configured)])

\* addDocuments line 105, createCollection line 47: getCollections is awaited
\* as it is, with no timer
EnterAddDocuments(l, documents) ==
  Susp("cc_list",
       [l EXCEPT !.processedDocuments = documents,
                 !.call = Issue("getCollections", FALSE)],
       <<>>)

\* processFile's for loop: the next batch, or return chunksWithEmbeddings to
\* indexDocument, which calls addDocuments
ContinueBatches(l, configured) ==
  IF l.i < Len(l.chunks)
  THEN EnterBatch(l, configured)
  ELSE EnterAddDocuments(l, l.chunksWithEmbeddings)

\* every chunk is kept, however many there are
LimitedChunksUncut(text, chunkSize, overlap, metadata, maxChunks, owner) ==
  splitTextIntoChunks(text, chunkSize, overlap, metadata, owner)

\* processFile lines 207-216: chunk, then keep the first maxChunks
LimitedChunks(text, chunkSize, overlap, metadata, maxChunks, owner) ==
  LET chunks == splitTextIntoChunks(text, chunkSize, overlap, metadata, owner)
  IN IF Len(chunks) > maxChunks THEN SubSeq(chunks, 1, maxChunks) ELSE chunks

\* indexDocument(file) up to the await of extractTextFromFile in processFile,
\* which chunks by chunkSize and overlap and keeps maxChunks chunks
EnterIndexDocument(r, file, chunkSize, overlap, maxChunks) ==
  LET fileType == fileTypeOf(fileExtension(file))
      documentId == uuid("document", r, 0)
      metadata == [source_file |-> file.originalname,
                   file_type |-> fileType,
                   document_id |-> documentId]
  IN /\ uploads' = uploads \cup {file.path}
     /\ Suspend(r, Susp("extract",
                        [Locals0 EXCEPT !.kind = "index", !.owner = r,
                                        !.file = file,
                                        !.documentId = documentId,
                                        !.fileType = fileType,
                                        !.metadata = metadata,
                                        !.chunkSize = chunkSize,
                                        !.overlap = overlap,
                                        !.maxChunks = maxChunks],
                        <<>>))
     /\ UNCHANGED <<openai, qdrant, indexedDocuments>>

(***************************************************************************)
(* ragRoutes.js, uploadMiddleware.js: what a request must pass before the  *)
(* service is called                                                       *)
(***************************************************************************)
allowedFileTypes ==
  {".pdf", ".docx", ".doc", ".pptx", ".ppt", ".jpg", ".jpeg", ".png", ".txt"}

\* a filter that lets every file through
fileFilterAll(file) == TRUE

\* fileFilter: cb(null, true) or cb(new Error('Unsupported file type ...'))
fileFilter(file) == ToLowerCase(file.originalname.ext) \in allowedFileTypes

\* limits.fileSize of the multer instance
FileSizeLimit == 10 * 1024 * 1024

\* an upload nobody may index: a program, and a file past the size limit
Program(r) == [originalname |-> [stem |-> "setup", ext |-> ".exe"],
               path |-> UploadPath(r), size |-> SmallSize,
               text |-> TwoParagraphs]
Oversized(r) == [originalname |-> [stem |-> "notes", ext |-> ".txt"],
                 path |-> UploadPath(r), size |-> FileSizeLimit + 1,
                 text |-> TwoParagraphs]

\* the multipart requests POST /rag/index may receive: with a 'document'
\* part or without one
IndexRequests(files) ==
  {[route |-> "index", present |-> TRUE, file |-> f] : f \in files}
    \cup {[route |-> "index", present |-> FALSE, file |-> NoFile]}

\* upload.single('document'): the error multer passes to next(), "none" when
\* it stores the file or finds no file part
MulterError(req) ==
  IF ~req.present THEN "none"
  ELSE IF ~fileFilter(req.file) THEN "Unsupported file type"
  ELSE IF req.file.size > FileSizeLimit THEN "LIMIT_FILE_SIZE"
  ELSE "none"

\* handleUploadErrors on multer's error, then the handler's check of req.file:
\* the response sent before indexDocument, status 200 when none is sent
IndexValidation(req) ==
  LET err == MulterError(req)
  IN IF err = "LIMIT_FILE_SIZE"
       THEN [success |-> FALSE, status |-> 400, error |-> "File size limit exceeded"]
     ELSE IF err = "Unsupported file type"
       THEN [success |-> FALSE, status |-> 400, error |-> "Unsupported file type"]
     ELSE IF ~req.present
       THEN [success |-> FALSE, status |-> 400, error |-> "No file uploaded"]
     ELSE [success |-> TRUE, status |-> 200, error |-> "none"]

\* the JSON bodies POST /rag/chat may receive: a query, an empty query, no
\* query
ChatRequests(queries) ==
  {[route |-> "chat", present |-> TRUE, query |-> q] : q \in queries \cup {<<>>}}
    \cup {[route |-> "chat", present |-> FALSE, query |-> <<>>]}

\* if (!query) of the chat handler
ChatValidation(req) ==
  IF ~req.present \/ req.query = <<>>
    THEN [success |-> FALSE, status |-> 400, error |-> "Query is required"]
  ELSE [success |-> TRUE, status |-> 200, error |-> "none"]

\* return res.status(400).json(...): the request ends in the route
Reject(r, req, response) ==
  Susp("ret", [Locals0 EXCEPT !.kind = "rejected", !.owner = r, !.req = req,
                              !.result = response], <<>>)

\* POST /rag/index: multer filters and stores the upload, handleUploadErrors
\* and the handler answer what fails validation; otherwise indexDocument runs
\* to the await of extractTextFromFile in processFile
RagIndex(r, files) ==
  /\ pc[r] = "idle"
  /\ \E req \in IndexRequests(files) :
       LET response == IndexValidation(req)
       IN IF response.success
            THEN EnterIndexDocument(r, req.file, ChunkSize, Overlap,
                                    DefaultMaxChunks)
          ELSE /\ Suspend(r, Reject(r, req, response))
               /\ UNCHANGED <<openai, qdrant, indexedDocuments, uploads>>

PostRagIndex(r) == RagIndex(r, Files(r) \cup {Program(r), Oversized(r)})

\* extractTextFromFile has settled (it catches its own faults): chunking and
\* the first batch of embeddings
ExtractSettled(r) ==
  /\ pc[r] = "extract"
  /\ \E parsed \in BOOLEAN :
       LET l == loc[r]
           text == extractTextFromFile(l.file, l.fileType, parsed)
           chunks == LimitedChunks(text, l.chunkSize, l.overlap, l.metadata,
                                   l.maxChunks, l.owner)
       IN Suspend(r, ContinueBatches([l EXCEPT !.text = text,
                                               !.chunks = chunks, !.i = 0],
                                     openai))
  /\ UNCHANGED <<openai, qdrant, indexedDocuments, uploads>>

\* indexDocument's catch (part_002:103-109): a fault raised in processFile,
\* which rethrows it (documentProcessor.js:261-264)
IndexFailure(l, message) ==
  [l EXCEPT !.result = [success |-> FALSE, error |-> message], !.call = NoCall]

ProcessFileThrows(r) ==
  /\ pc[r] = "extract"
  /\ Suspend(r, Susp("ret", IndexFailure(loc[r], "processFile"), <<>>))
  /\ UNCHANGED <<openai, qdrant, indexedDocuments, uploads>>

\* the results of the batch with the embeddings in the opposite order
BatchResultsReversed(l, ts) ==
  [k \in 1..Len(ts) |->
     [id |-> l.chunks[l.i + k].id, content |-> l.chunks[l.i + k].content,
      metadata |-> l.chunks[l.i + k].metadata,
      embedding |-> IF ts[Len(ts) + 1 - k].st = "raised"
                    THEN generateMockEmbedding
                    ELSE ts[Len(ts) + 1 - k].embedding]]

\* Promise.all of the batch has resolved: its results are appended in chunk
\* order, each chunk with the embedding of its own call, or with a mock
\* embedding if the call raised (lines 237-249)
BatchResults(l, ts) ==
  [k \in 1..Len(ts) |->
     [id |-> l.chunks[l.i + k].id, content |-> l.chunks[l.i + k].content,
      metadata |-> l.chunks[l.i + k].metadata,
      embedding |-> IF ts[k].st = "raised" THEN generateMockEmbedding
                    ELSE ts[k].embedding]]

Settled(t) == t.st \in {"done", "raised"}

BatchSettled(r) ==
  /\ pc[r] = "embed"
  /\ \A k \in 1..Len(tasks[r]) : Settled(tasks[r][k])
  /\ LET l == loc[r]
     IN Suspend(r, ContinueBatches(
                     [l EXCEPT !.chunksWithEmbeddings =
                                  @ \o BatchResults(l, tasks[r]),
                               !.i = @ + BATCH_SIZE],
                     openai))
  /\ UNCHANGED <<openai, qdrant, indexedDocuments, uploads>>


\* indexDocument after addDocuments has returned storeResult: the await of
\* unlinkAsync (part_002:77-81)
EnterUnlink(l, storeResult) ==
  Susp("unlink", [l EXCEPT !.storeResult = storeResult, !.call = NoCall], <<>>)

\* addDocuments returns storeResult: to indexDocument, or to a caller of its
\* own
AddDocumentsReturns(l, storeResult) ==
  IF l.kind = "store"
  THEN Susp("ret", [l EXCEPT !.storeResult = storeResult,
                             !.result = storeResult, !.call = NoCall], <<>>)
  ELSE EnterUnlink(l, storeResult)

\* addDocuments lines 130-135: the upsert of the batch at offset l.j is
\* awaited as it is, or the loop is over and the call succeeds (lines 139-144)
ContinueUpserts(l) ==
  IF l.j < Len(l.points)
  THEN Susp("upsert", [l EXCEPT !.call = Issue("upsert", FALSE)], <<>>)
  ELSE AddDocumentsReturns(l, [success |-> TRUE, error |-> "none"])

\* addDocuments lines 105-126, once createCollection has returned
AfterCreateCollection(l, collectionResult) ==
  IF ~collectionResult.success
  THEN AddDocumentsReturns(
         [l EXCEPT !.collectionResult = collectionResult],
         [success |-> FALSE, error |-> "Failed to create collection"])
  ELSE ContinueUpserts(
         [l EXCEPT !.collectionResult = collectionResult,
                   !.points = PointsOf(l.processedDocuments, l.owner),
                   !.j = 0])

\* createCollection: getCollections has answered or failed (lines 47-72)
CollectionsListed(r) ==
  /\ pc[r] = "cc_list"
  /\ \E ok \in BOOLEAN :
       LET l == loc[r]
       IN IF ~ok
          THEN Suspend(r, AfterCreateCollection(
                            l, [success |-> FALSE, error |-> "getCollections"]))
          ELSE IF ~Exists(qdrant, GLOBAL_COLLECTION_NAME)
          THEN Suspend(r, Susp("cc_create",
                               [l EXCEPT !.call =
                                   Issue("createCollection", FALSE)],
                               <<>>))
          ELSE Suspend(r, AfterCreateCollection(
                            l, [success |-> TRUE, error |-> "existed"]))
  /\ UNCHANGED <<openai, qdrant, indexedDocuments, uploads>>

\* Qdrant's answer to a served createCollection: it refuses to create a
\* collection that exists
CreateAnswer(exists) == IF exists THEN "already exists" ELSE "created"

\* createCollection: client.createCollection has answered or has failed; the
\* catch of lines 69-72 returns success:false with the error's message
CollectionCreated(r) ==
  /\ pc[r] = "cc_create"
  /\ \E ok \in BOOLEAN :
       LET answer == IF ok
                     THEN CreateAnswer(Exists(qdrant, GLOBAL_COLLECTION_NAME))
                     ELSE "createCollection"
       IN IF answer = "created"
          THEN /\ qdrant' = qdrant @@ (GLOBAL_COLLECTION_NAME :> {})
               /\ Suspend(r, AfterCreateCollection(
                               loc[r], [success |-> TRUE, error |-> "created"]))
          ELSE /\ qdrant' = qdrant
               /\ Suspend(r, AfterCreateCollection(
                               loc[r], [success |-> FALSE, error |-> answer]))
  /\ UNCHANGED <<openai, indexedDocuments, uploads>>

\* addDocuments: client.upsert of one batch has been acknowledged or has
\* failed (the catch of lines 145-148)
UpsertSettled(r) ==
  /\ pc[r] = "upsert"
  /\ \E ok \in BOOLEAN :
       LET l == loc[r]
       IN IF ok /\ Exists(qdrant, GLOBAL_COLLECTION_NAME)
          THEN /\ qdrant' =
                    [qdrant EXCEPT ![GLOBAL_COLLECTION_NAME] =
                                      Upserted(@, Batch(l.points, l.j))]
               /\ Suspend(r, ContinueUpserts([l EXCEPT !.j = @ + batchSize]))
          ELSE /\ qdrant' = qdrant
               /\ Suspend(r, AddDocumentsReturns(l, [success |-> FALSE,
                                                     error |-> "upsert"]))
  /\ UNCHANGED <<openai, indexedDocuments, uploads>>

\* the entry kept under the file's name, where it replaces an earlier one
RegisteredByName(registry, l) ==
  (l.file.originalname :>
     [documentId |-> l.documentId,
      chunksCount |-> Len(l.processedDocuments),
      filename |-> l.file.originalname,
      fileType |-> l.fileType])
  @@ [d \in DOMAIN registry \ {l.file.originalname} |-> registry[d]]

\* indexedDocuments.set(documentId, {...}) (part_002:88-94)
Registered(registry, l) ==
  (l.documentId :>
     [documentId |-> l.documentId,
      chunksCount |-> Len(l.processedDocuments),
      filename |-> l.file.originalname,
      fileType |-> l.fileType])
  @@ registry

\* the value indexDocument returns after the unlink (part_002:96-102)
IndexSuccess(l) ==
  [success |-> TRUE, error |-> "none", documentId |-> l.documentId,
   collectionName |-> GLOBAL_COLLECTION_NAME,
   documentCount |-> Len(l.processedDocuments),
   filename |-> l.file.originalname]

\* unlinkAsync has removed the temporary file; the document is registered
\* and the call returns (part_002:79-102; storeResult is not read)
Unlinked(r) ==
  /\ pc[r] = "unlink"
  /\ uploads' = uploads \ {loc[r].file.path}
  /\ indexedDocuments' = Registered(indexedDocuments, loc[r])
  /\ Suspend(r, Susp("ret", [loc[r] EXCEPT !.result = IndexSuccess(loc[r])], <<>>))
  /\ UNCHANGED <<openai, qdrant>>


(***************************************************************************)
(* The steps of one generateEmbedding call, task k of request r.           *)
(***************************************************************************)
SetTask(r, k, t) ==
  /\ tasks' = [tasks EXCEPT ![r][k] = t]
  /\ UNCHANGED <<openai, qdrant, indexedDocuments, uploads, pc, loc>>

Awaiting(r, k) == k \in 1..Len(tasks[r]) /\ tasks[r][k].st = "await"

\* the provider answers before the timer: an embedding, or an error that is
\* or is not classified as a rate limit (lines 150-162)
EmbeddingAnswered(r, k) ==
  /\ Awaiting(r, k)
  /\ \E answer \in {"embedding", "error", "rate limit"} :
       SetTask(r, k, IF answer = "embedding"
                     THEN EmbedSucceeded(tasks[r][k])
                     ELSE EmbedRejected(tasks[r][k], answer))

\* the timer fires first
EmbeddingTimedOut(r, k) ==
  /\ Awaiting(r, k)
  /\ tasks[r][k].timer
  /\ SetTask(r, k, EmbedTimedOut(tasks[r][k]))

\* the provider answers a request whose timer has fired: Promise.race has
\* settled, the answer is dropped
AbandonedAnswered(r, k) ==
  /\ k \in 1..Len(tasks[r])
  /\ tasks[r][k].abandoned > 0
  /\ SetTask(r, k, [tasks[r][k] EXCEPT !.abandoned = @ - 1])

\* the backoff wait of line 178 is over
BackoffElapsed(r, k) ==
  /\ k \in 1..Len(tasks[r])
  /\ tasks[r][k].st = "backoff"
  /\ SetTask(r, k, EmbedRetry(tasks[r][k]))

(***************************************************************************)
(* search (vectorStore.js) against Qdrant.  Scores are in tenths.          *)
(***************************************************************************)
ScoreValues == {5, 9}

\* the request without its score_threshold
SearchRequestUnfiltered(queryEmbedding, limit, minScore) ==
  [vector |-> queryEmbedding, limit |-> limit, score_threshold |-> 0]

\* the request of lines 179-183
SearchRequest(queryEmbedding, limit, minScore) ==
  [vector |-> queryEmbedding, limit |-> limit, score_threshold |-> minScore]

RECURSIVE Ranked(_, _)
Ranked(S, scoreOf) ==
  IF S = {} THEN <<>>
  ELSE LET best == CHOOSE p \in S : \A q \in S : scoreOf[q] <= scoreOf[p]
       IN <<best>> \o Ranked(S \ {best}, scoreOf)

\* Qdrant's search: the points scoring at least score_threshold, best first,
\* at most limit of them; scoreOf is the cosine similarity to the vector
QdrantSearch(stored, scoreOf, request) ==
  LET ranked == Ranked({p \in stored : scoreOf[p] >= request.score_threshold},
                       scoreOf)
  IN [k \in 1..Min(request.limit, Len(ranked)) |->
        [id |-> ranked[k].id, payload |-> ranked[k].payload,
         score |-> scoreOf[ranked[k]]]]

\* {...result.payload, content: undefined}
WithoutContent(payload) ==
  [f \in DOMAIN payload \ {"content"} |-> payload[f]]

\* lines 191-199: result.payload.original_id || result.id
SearchResults(hits) ==
  [k \in 1..Len(hits) |->
     [id |-> IF hits[k].payload.original_id.val # <<>>
             THEN hits[k].payload.original_id ELSE hits[k].id,
      content |-> hits[k].payload.content,
      metadata |-> WithoutContent(hits[k].payload),
      score |-> hits[k].score]]

(***************************************************************************)
(* generateResponse (contentGenerator.js).                                 *)
(***************************************************************************)
InsufficientInformation ==
  <<"I don't have enough information to answer this question as no context was provided.">>

Apology ==
  <<"I'm sorry, I encountered an error processing your query. Please try again.">>

Terminators == {".", "!", "?"}

RECURSIVE SentencesFrom(_, _)
\* content.split(/[.!?]+/).filter(s => s.trim().length > 0)
SentencesFrom(s, cur) ==
  LET closed == IF Trim(cur) # <<>> THEN <<cur>> ELSE <<>>
  IN IF s = <<>> THEN closed
     ELSE IF Head(s) \in Terminators THEN closed \o SentencesFrom(Tail(s), <<>>)
     ELSE SentencesFrom(Tail(s), Append(cur, Head(s)))

RECURSIVE Join(_, _)
Join(parts, sep) ==
  IF parts = <<>> THEN <<>>
  ELSE IF Len(parts) = 1 THEN parts[1]
  ELSE parts[1] \o sep \o Join(Tail(parts), sep)

FirstN(q, n) == SubSeq(q, 1, Min(n, Len(q)))

\* sentences.slice(0, 2).join('. ') + '.'
ContextSample(content) ==
  Join(FirstN(SentencesFrom(content, <<>>), 2), <<".", " ">>) \o <<".">>

\* the mock response composed without looking at the number of contexts
generateMockResponseUnguarded(query, contexts) ==
  <<"Based on the information I have, I can tell you that ">>
    \o Join([k \in 1..Min(2, Len(contexts)) |->
               ContextSample(contexts[k].content)],
            <<" Furthermore, ">>)
    \o <<" This information is directly based on the context provided. Is there anything specific about this you'd like me to elaborate on?">>

\* _generateMockResponse
generateMockResponse(query, contexts) ==
  IF Len(contexts) = 0 THEN InsufficientInformation
  ELSE <<"Based on the information I have, I can tell you that ">>
         \o Join([k \in 1..Min(2, Len(contexts)) |->
                    ContextSample(contexts[k].content)],
                 <<" Furthermore, ">>)
         \o <<" This information is directly based on the context provided. Is there anything specific about this you'd like me to elaborate on?">>


(***************************************************************************)
(* generateChatResponse (ragService.js) with search (vectorStore.js) and   *)
(* generateResponse (contentGenerator.js), cut at the awaits.              *)
(***************************************************************************)
Queries == {<<"X", "?">>}

\* the texts message.content of a completion may hold
CompletionTexts == {<<"X", " ", "Y">>, <<" ">>}

\* search lines 161-165: getCollections is awaited as it is, with no timer
EnterSearch(l, queryEmbedding) ==
  Susp("s_list",
       [l EXCEPT !.queryEmbedding = queryEmbedding,
                 !.call = Issue("getCollections", FALSE)],
       <<>>)

\* the value generateChatResponse returns (part_002:152-161)
ChatSuccess(l, response) ==
  [success |-> TRUE, error |-> "none", query |-> l.query, response |-> response,
   contexts |-> [k \in 1..Len(l.searchResults) |->
                   [content |-> l.searchResults[k].content,
                    score |-> l.searchResults[k].score,
                    source |-> l.searchResults[k].metadata.source_file]]]

Return(l, result) == Susp("ret", [l EXCEPT !.result = result, !.call = NoCall], <<>>)

\* search has returned searchResults, to a direct caller or to
\* generateChatResponse; there generateResponse answers with the mock when no
\* provider is configured, else races createChatCompletion against a timer
\* (contentGenerator lines 269-309)
AfterSearch(l0, searched, searchResults, configured) ==
  LET l == [l0 EXCEPT !.searched = searched, !.searchResults = searchResults]
  IN IF l.kind = "search" THEN Return(l, searchResults)
     ELSE IF ~configured
     THEN Return([l EXCEPT !.answeredBy = "mock"],
                 ChatSuccess(l, generateMockResponse(l.query, searchResults)))
     ELSE Susp("gen",
               [l EXCEPT !.completions = @ + 1,
                         !.call = Issue("createChatCompletion", TRUE)],
               <<>>)

\* POST /rag/chat: generateChatResponse awaits generateEmbedding(query)
PostRagChat(r) ==
  /\ pc[r] = "idle"
  /\ \E req \in ChatRequests(Queries) :
       LET response == ChatValidation(req)
           query == req.query
       IN IF response.success
            THEN Suspend(r, Susp("q_embed",
                       [Locals0 EXCEPT !.kind = "chat", !.owner = r,
                                       !.query = query,
                                       !.retries = DefaultRetries,
                                       !.limit = DefaultLimit,
                                       !.minScore = DefaultMinScore],
                       <<StartEmbedding(query, DefaultRetries, openai)>>))
          ELSE Suspend(r, Reject(r, req, response))
  /\ UNCHANGED <<openai, qdrant, indexedDocuments, uploads>>

\* the value generateChatResponse's catch returns (part_002:162-170)
ChatFailure(l, message) ==
  [success |-> FALSE, error |-> message, query |-> l.query,
   response |-> Apology, contexts |-> <<>>]

\* the query's embedding is there: search is called
QueryEmbedded(r) ==
  /\ pc[r] = "q_embed"
  /\ Settled(tasks[r][1])
  /\ IF tasks[r][1].st = "raised"
     THEN Suspend(r, Return(loc[r], ChatFailure(loc[r], "generateEmbedding")))
     ELSE Suspend(r, EnterSearch(loc[r], tasks[r][1].embedding))
  /\ UNCHANGED <<openai, qdrant, indexedDocuments, uploads>>

\* the listing's answer is not looked at: the query is issued
AfterListingUnchecked(ok, exists) == IF ~ok THEN "listing failed" ELSE "query"

\* search lines 165-171, 200-204: after the listing, the catch returns [],
\* an absent collection returns [], a present one is queried
AfterListing(ok, exists) ==
  IF ~ok THEN "listing failed" ELSE IF ~exists THEN "absent" ELSE "query"

\* a search that creates the collection it does not find
SearchListedCreating(r) ==
  /\ pc[r] = "s_list"
  /\ \E ok \in BOOLEAN :
       LET l == loc[r]
           next == AfterListing(ok, Exists(qdrant, GLOBAL_COLLECTION_NAME))
       IN /\ IF next = "query"
             THEN Suspend(r, Susp("s_query",
                                  [l EXCEPT !.searches = @ + 1,
                                            !.call = Issue("search", TRUE)],
                                  <<>>))
             ELSE Suspend(r, AfterSearch(l, next, <<>>, openai))
          /\ qdrant' = IF next = "absent"
                       THEN qdrant @@ (GLOBAL_COLLECTION_NAME :> {})
                       ELSE qdrant
  /\ UNCHANGED <<openai, indexedDocuments, uploads>>

\* search: getCollections has answered or failed; the query is raced against
\* a timer (lines 174-186)
SearchListed(r) ==
  /\ pc[r] = "s_list"
  /\ \E ok \in BOOLEAN :
       LET l == loc[r]
           next == AfterListing(ok, Exists(qdrant, GLOBAL_COLLECTION_NAME))
       IN IF next = "query"
          THEN Suspend(r, Susp("s_query",
                               [l EXCEPT !.searches = @ + 1,
                                         !.call = Issue("search", TRUE)],
                               <<>>))
          ELSE Suspend(r, AfterSearch(l, next, <<>>, openai))
  /\ UNCHANGED <<openai, qdrant, indexedDocuments, uploads>>

\* search: client.search has answered before the timer, or has failed
SearchAnswered(r) ==
  /\ pc[r] = "s_query"
  /\ \E ok \in BOOLEAN :
       LET l == loc[r]
       IN IF ok /\ Exists(qdrant, GLOBAL_COLLECTION_NAME) /\ l.limit >= 1
          THEN \E scoreOf \in [qdrant[GLOBAL_COLLECTION_NAME] -> ScoreValues] :
                 Suspend(r, AfterSearch(
                              l, "found",
                              SearchResults(QdrantSearch(
                                qdrant[GLOBAL_COLLECTION_NAME], scoreOf,
                                SearchRequest(l.queryEmbedding, l.limit,
                                              l.minScore))),
                              openai))
          ELSE Suspend(r, AfterSearch(l, "query failed", <<>>, openai))
  /\ UNCHANGED <<openai, qdrant, indexedDocuments, uploads>>

\* search: the timer has fired first (lines 174-176, 200-204)
SearchTimedOut(r) ==
  /\ pc[r] = "s_query"
  /\ loc[r].call.timer
  /\ Suspend(r, AfterSearch(loc[r], "timed out", <<>>, openai))
  /\ UNCHANGED <<openai, qdrant, indexedDocuments, uploads>>

\* generateResponse: the completion has answered (its trimmed text is
\* returned) or has failed (the mock is returned), lines 309-319
CompletionAnswered(r) ==
  /\ pc[r] = "gen"
  /\ \E text \in CompletionTexts \cup {<<"error">>} :
       LET l == loc[r]
       IN IF text = <<"error">>
          THEN Suspend(r, Return([l EXCEPT !.answeredBy = "fallback"],
                 ChatSuccess(l, generateMockResponse(l.query, l.searchResults))))
          ELSE Suspend(r, Return([l EXCEPT !.answeredBy = "completion"],
                 ChatSuccess(l, Trim(text))))
  /\ UNCHANGED <<openai, qdrant, indexedDocuments, uploads>>

\* generateResponse: the timer has fired first
CompletionTimedOut(r) ==
  /\ pc[r] = "gen"
  /\ loc[r].call.timer
  /\ Suspend(r, Return([loc[r] EXCEPT !.answeredBy = "fallback"],
                 ChatSuccess(loc[r],
                   generateMockResponse(loc[r].query, loc[r].searchResults))))
  /\ UNCHANGED <<openai, qdrant, indexedDocuments, uploads>>

(***************************************************************************)
(* getSystemStatus (ragService.js) with getCollection (vectorStore.js).    *)
(***************************************************************************)
\* Array.from(indexedDocuments.values()): one element per key of the Map,
\* held here as the set of the elements
RegistryValues(registry) == {registry[d] : d \in DOMAIN registry}

\* the value getSystemStatus returns (part_002:202-214); collectionInfo is
\* null when getCollection caught a fault
SystemStatus(connected, configured, collectionInfo, registry) ==
  [success |-> TRUE, error |-> "none",
   status |->
     [qdrantConnected |-> connected,
      openaiAvailable |-> configured,
      globalCollection |->
        [name |-> GLOBAL_COLLECTION_NAME,
         exists |-> collectionInfo.found,
         vectorCount |-> IF collectionInfo.found
                         THEN collectionInfo.vectors_count ELSE 0],
      indexedDocuments |-> RegistryValues(registry)]]

\* GET /status: getSystemStatus awaits getCollection, with no timer
GetStatus(r) ==
  /\ pc[r] = "idle"
  /\ Suspend(r, Susp("st_coll",
                     [Locals0 EXCEPT !.kind = "status", !.owner = r,
                                     !.call = Issue("getCollection", FALSE)],
                     <<>>))
  /\ UNCHANGED <<openai, qdrant, indexedDocuments, uploads>>

\* getCollection has answered or failed (vectorStore.js:212-219): the status
\* is assembled from the registry as it is now; connected is
\* vectorStore.initialized
StatusAnswered(r) ==
  /\ pc[r] = "st_coll"
  /\ \E ok \in BOOLEAN, connected \in BOOLEAN :
       LET found == ok /\ Exists(qdrant, GLOBAL_COLLECTION_NAME)
           collectionInfo ==
             [found |-> found,
              vectors_count |-> IF found
                                THEN Cardinality(qdrant[GLOBAL_COLLECTION_NAME])
                                ELSE 0]
       IN Suspend(r, Return(loc[r],
                            SystemStatus(connected, openai, collectionInfo,
                                         indexedDocuments)))
  /\ UNCHANGED <<openai, qdrant, indexedDocuments, uploads>>

(***************************************************************************)
(* The service: requests interleave at their awaits.                       *)
(***************************************************************************)
Next ==
  \E r \in Reqs :
    \/ PostRagIndex(r)
    \/ ExtractSettled(r)
    \/ ProcessFileThrows(r)
    \/ BatchSettled(r)
    \/ CollectionsListed(r)
    \/ CollectionCreated(r)
    \/ UpsertSettled(r)
    \/ Unlinked(r)
    \/ PostRagChat(r)
    \/ QueryEmbedded(r)
    \/ SearchListed(r)
    \/ SearchAnswered(r)
    \/ SearchTimedOut(r)
    \/ CompletionAnswered(r)
    \/ CompletionTimedOut(r)
    \/ GetStatus(r)
    \/ StatusAnswered(r)
    \/ \E k \in 1..BATCH_SIZE :
         \/ EmbeddingAnswered(r, k)
         \/ EmbeddingTimedOut(r, k)
         \/ BackoffElapsed(r, k)
         \/ AbandonedAnswered(r, k)

Spec == Init /\ [][Next]_vars


(***************************************************************************)
(* Claims about the service, checked under Spec.                           *)
(***************************************************************************)
Returned(r, kind) == pc[r] = "ret" /\ loc[r].kind = kind

\* addDocuments was called by request r and returned success:false
StoreFailed(r) ==
  /\ loc[r].kind = "index"
  /\ ~loc[r].storeResult.success
  /\ loc[r].storeResult.error # "none"

\* C1: when addDocuments yields success:false (the collection could not be
\* created, or an upsert failed), indexDocument returns success:false.
C1_StoreFailureSurfaced ==
  \A r \in Reqs : Returned(r, "index") /\ StoreFailed(r) => ~loc[r].result.success

\* the points of document d in the global collection
StoredPoints(d) ==
  IF Exists(qdrant, GLOBAL_COLLECTION_NAME)
  THEN {p \in qdrant[GLOBAL_COLLECTION_NAME] : p.payload.document_id = d}
  ELSE {}

\* C2: the registry holds an entry for a document only if all of its
\* chunksCount chunks were written to the global collection.
C2_RegistryOnlyIndexed ==
  \A d \in DOMAIN indexedDocuments :
    Cardinality(StoredPoints(d)) = indexedDocuments[d].chunksCount

\* C3: the chunks stored for a .txt upload hold text of the file itself: the
\* type inferred for .txt is 'text' and the extractor returns the file's text
\* for it.
C3_TxtChunksFromFile ==
  \A r \in Reqs :
    loc[r].kind = "index" /\ fileExtension(loc[r].file) = "txt" =>
      /\ loc[r].fileType = "text"
      /\ \A p \in StoredPoints(loc[r].documentId) :
           /\ extractTextFromFile(loc[r].file, loc[r].fileType, TRUE)
                = loc[r].file.text
           /\ Infix(p.payload.content, loc[r].file.text)

\* C5: every network call awaited by a request (embedding, completion,
\* upsert, search, the collection listing and creation) is raced against a
\* timer.
C5_EveryCallRaced ==
  \A r \in Reqs :
    /\ loc[r].call.op # "none" => loc[r].call.timer
    /\ \A k \in 1..Len(tasks[r]) : tasks[r][k].st = "await" => tasks[r][k].timer

\* C6: the mock response stands in for a failed completion only after the
\* completion was retried, i.e. after more than one request to the provider.
C6_CompletionRetried ==
  \A r \in Reqs :
    Returned(r, "chat") /\ loc[r].answeredBy = "fallback" => loc[r].completions > 1

\* C7: every chat call returns a result whose response is a non-empty string.
C7_ResponseNonEmpty ==
  \A r \in Reqs : Returned(r, "chat") => Len(loc[r].result.response) > 0

\* C10: when an indexDocument call has returned, its temporary upload is gone.
C10_UploadRemoved ==
  \A r \in Reqs : Returned(r, "index") => loc[r].file.path \notin uploads


\* C8: search never propagates an error.  No nearest-neighbour query is
\* issued against an absent collection; an absent collection, a failed
\* listing, a failed query and a timed-out query all give the empty list;
\* and chat then returns success:true with contexts [].
C8_SearchNeverPropagates ==
  \A r \in Reqs :
    /\ pc[r] = "s_query" => Exists(qdrant, GLOBAL_COLLECTION_NAME)
    /\ loc[r].searched = "absent" => loc[r].searches = 0
    /\ loc[r].searched \in {"absent", "listing failed", "query failed", "timed out"}
         => loc[r].searchResults = <<>>
    /\ Returned(r, "chat") /\ loc[r].searched # "found"
         => loc[r].result.success /\ loc[r].result.contexts = <<>>

\* a chat whose nearest-neighbour query failed has returned
C8_Witness ==
  \E r \in Reqs :
    /\ Returned(r, "chat")
    /\ loc[r].searched = "query failed"
    /\ loc[r].searches = 1
    /\ loc[r].result.success
    /\ loc[r].result.contexts = <<>>


(***************************************************************************)
(* generateEmbedding called on its own, with any number of retries.  The   *)
(* timers and the backoff waits are setTimeout callbacks, which the event  *)
(* loop runs; nothing obliges the provider to answer.                      *)
(***************************************************************************)
\* texts to embed, one of them with outer white space and a run of newlines
EmbedTexts == FileTexts \cup Queries \cup {<<" ", "X", "\n", "\n", "\n", "Y", " ">>}

\* calls of generateEmbedding and of search share nothing they write: one
\* caller stands for all
Caller == CHOOSE r \in Reqs : \A q \in Reqs : r <= q

\* the timeoutMs arguments tried: the default and a shorter one
TimeoutValues == {DefaultTimeoutMs, 4290}

\* generateEmbedding(text, retries, timeoutMs) is called
CallGenerateEmbedding(r) ==
  /\ pc[r] = "idle"
  /\ \E text \in EmbedTexts, retries \in 0..MaxRetries,
        timeoutMs \in TimeoutValues :
       Suspend(r, Susp("e_wait",
                       [Locals0 EXCEPT !.kind = "embed", !.owner = r,
                                       !.retries = retries],
                       <<[StartEmbedding(text, retries, openai)
                            EXCEPT !.timeoutMs = timeoutMs]>>))
  /\ UNCHANGED <<openai, qdrant, indexedDocuments, uploads>>

\* the call's promise has settled: the caller has its value
EmbeddingReturned(r) ==
  /\ pc[r] = "e_wait"
  /\ Settled(tasks[r][1])
  /\ Suspend(r, Susp("ret",
                     [loc[r] EXCEPT !.result = tasks[r][1].embedding],
                     tasks[r]))
  /\ UNCHANGED <<openai, qdrant, indexedDocuments, uploads>>

NextEmbed ==
  \/ CallGenerateEmbedding(Caller)
  \/ EmbeddingReturned(Caller)
  \/ EmbeddingAnswered(Caller, 1)
  \/ EmbeddingTimedOut(Caller, 1)
  \/ BackoffElapsed(Caller, 1)
  \/ AbandonedAnswered(Caller, 1)

SpecEmbed ==
  /\ Init
  /\ [][NextEmbed]_vars
  /\ WF_vars(EmbeddingTimedOut(Caller, 1))
  /\ WF_vars(BackoffElapsed(Caller, 1))
  /\ WF_vars(EmbeddingReturned(Caller))

\* C4: every generateEmbedding call eventually returns a vector, the
\* provider's or the mock, and no call ever raises, whether a provider is
\* configured or not and whatever the provider does on each attempt (answer,
\* fail, fail with a rate limit, never answer).
C4_EmbedResolves ==
  /\ \A r \in Reqs :
       (pc[r] = "e_wait")
         ~> (Returned(r, "embed") /\ loc[r].result.src \in {"openai", "mock"})
  /\ [](\A r \in Reqs : \A k \in 1..Len(tasks[r]) : tasks[r][k].st # "raised")

\* a call with a provider configured has used up all its attempts, waited
\* between them, and returned the mock
C4_Witness ==
  \E r \in Reqs :
    /\ Returned(r, "embed")
    /\ openai
    /\ loc[r].retries = MaxRetries
    /\ tasks[r][1].attempt = MaxRetries
    /\ tasks[r][1].waits = MaxRetries - 1
    /\ loc[r].result = generateMockEmbedding


(***************************************************************************)
(* search called on its own, over any content of the global collection,    *)
(* with any limit and minScore.                                            *)
(***************************************************************************)
MinScores == {0, DefaultMinScore}

\* points as addDocuments stores them
SamplePoints ==
  LET metadata == [source_file |-> [stem |-> "notes", ext |-> ".txt"],
                   file_type |-> "text", document_id |-> uuid("document", 0, 0)]
      documents == [k \in 1..(MaxLimit + 1) |->
                      [id |-> uuid("chunk", 0, k), content |-> <<"X">>,
                       metadata |-> metadata,
                       embedding |-> generateMockEmbedding]]
      points == PointsOf(documents, 0)
  IN {points[k] : k \in 1..(MaxLimit + 1)}

InitSearch ==
  /\ openai \in BOOLEAN
  /\ qdrant \in {<<>>} \cup {(GLOBAL_COLLECTION_NAME :> S) : S \in SUBSET SamplePoints}
  /\ indexedDocuments = <<>>
  /\ uploads = {}
  /\ pc = [r \in Reqs |-> "idle"]
  /\ loc = [r \in Reqs |-> Locals0]
  /\ tasks = [r \in Reqs |-> <<>>]

\* search(GLOBAL_COLLECTION_NAME, queryEmbedding, limit, minScore) is called
CallSearch(r) ==
  /\ pc[r] = "idle"
  /\ \E limit \in 0..MaxLimit, minScore \in MinScores :
       Suspend(r, EnterSearch([Locals0 EXCEPT !.kind = "search", !.owner = r,
                                              !.limit = limit,
                                              !.minScore = minScore],
                              generateMockEmbedding))
  /\ UNCHANGED <<openai, qdrant, indexedDocuments, uploads>>

NextSearch ==
  \/ CallSearch(Caller)
  \/ SearchListed(Caller)
  \/ SearchAnswered(Caller)
  \/ SearchTimedOut(Caller)

SpecSearch == InitSearch /\ [][NextSearch]_vars

\* C9: the list search returns has at most limit elements, and every
\* element of it has score >= minScore.
C9_SearchBounded ==
  \A r \in Reqs :
    Returned(r, "search") =>
      /\ Len(loc[r].result) <= loc[r].limit
      /\ \A k \in 1..Len(loc[r].result) : loc[r].result[k].score >= loc[r].minScore

\* a search over more points than its limit, with a score threshold, has
\* returned limit results
C9_Witness ==
  \E r \in Reqs :
    /\ Returned(r, "search")
    /\ loc[r].searched = "found"
    /\ loc[r].limit >= 1
    /\ loc[r].minScore = DefaultMinScore
    /\ Len(loc[r].result) = loc[r].limit
    /\ Cardinality(qdrant[GLOBAL_COLLECTION_NAME]) > loc[r].limit


(***************************************************************************)
(* indexDocument on scaled documents: a text of a few characters, chunked  *)
(* by ScaledChunkSize and ScaledOverlap, yields more chunks than the       *)
(* maxChunks given to processFile.                                         *)
(***************************************************************************)
FiveParagraphs ==
  <<"a", "\n", "\n", "b", "\n", "\n", "c", "\n", "\n", "d", "\n", "\n", "e">>

ScaledTexts == {FiveParagraphs, TwoParagraphs}

ScaledFiles(r) == {[originalname |-> n, path |-> UploadPath(r),
                    size |-> SmallSize, text |-> t] :
                     n \in FileNames, t \in ScaledTexts}

IndexScaled(r) ==
  /\ pc[r] = "idle"
  /\ \E file \in ScaledFiles(r), maxChunks \in 0..MaxChunksArg :
       EnterIndexDocument(r, file, ScaledChunkSize, ScaledOverlap, maxChunks)

NextScaled ==
  \/ IndexScaled(Caller)
  \/ ExtractSettled(Caller)
  \/ BatchSettled(Caller)
  \/ CollectionsListed(Caller)
  \/ CollectionCreated(Caller)
  \/ UpsertSettled(Caller)
  \/ Unlinked(Caller)
  \/ \E k \in 1..BATCH_SIZE :
       \/ EmbeddingAnswered(Caller, k)
       \/ EmbeddingTimedOut(Caller, k)
       \/ BackoffElapsed(Caller, k)
       \/ AbandonedAnswered(Caller, k)

SpecScaled == Init /\ [][NextScaled]_vars

\* the chunks the chunker produces for the text of request r
AllChunks(r) ==
  splitTextIntoChunks(loc[r].text, loc[r].chunkSize, loc[r].overlap,
                      loc[r].metadata, loc[r].owner)

\* the number of chunks kept of n under maxChunks
Kept(r) == Min(Len(AllChunks(r)), loc[r].maxChunks)

\* request r has returned success after addDocuments stored its documents
Indexed(r) ==
  /\ Returned(r, "index")
  /\ loc[r].result.success
  /\ loc[r].storeResult.success

\* C11: an indexed document has exactly min(n, maxChunks) chunks stored, the
\* first ones in chunk order, where n is the number of chunks the chunker
\* produces; documentCount and chunksCount are that number.
C11_FirstMaxChunksStored ==
  \A r \in Reqs :
    Indexed(r) =>
      /\ Cardinality(StoredPoints(loc[r].documentId)) = Kept(r)
      /\ \A k \in 1..Kept(r) :
           \E p \in StoredPoints(loc[r].documentId) :
             /\ p.payload.original_id = AllChunks(r)[k].id
             /\ p.payload.content = AllChunks(r)[k].content
      /\ loc[r].result.documentCount = Kept(r)
      /\ indexedDocuments[loc[r].documentId].chunksCount = Kept(r)

\* a document of more chunks than maxChunks has been indexed
C11_Witness ==
  \E r \in Reqs :
    /\ Indexed(r)
    /\ loc[r].maxChunks >= 1
    /\ Len(AllChunks(r)) > loc[r].maxChunks
    /\ Cardinality(StoredPoints(loc[r].documentId)) = loc[r].maxChunks


NothingIndexed ==
  ~Exists(qdrant, GLOBAL_COLLECTION_NAME) \/ qdrant[GLOBAL_COLLECTION_NAME] = {}

\* C13: a chat answered by the mock generator while no document was ever
\* indexed returns success:true, contexts [] and the insufficient-information
\* message.
C13_ChatWithoutDocuments ==
  \A r \in Reqs :
    Returned(r, "chat") /\ loc[r].answeredBy \in {"mock", "fallback"} /\ NothingIndexed
      => /\ loc[r].result.success
         /\ loc[r].result.contexts = <<>>
         /\ loc[r].result.response = InsufficientInformation

\* such a chat has returned, answered by the mock generator after a search
\* that found the collection absent or found nothing in it
C13_Witness ==
  /\ NothingIndexed
  /\ \E r \in Reqs :
       /\ Returned(r, "chat")
       /\ loc[r].answeredBy \in {"mock", "fallback"}
       /\ loc[r].searched \in {"absent", "found"}
       /\ loc[r].result.response = InsufficientInformation


(***************************************************************************)
(* splitTextIntoChunks called on its own, over every text of the alphabet  *)
(* up to MaxTextLen characters and a few longer ones.                      *)
(***************************************************************************)
Alphabet == {"a", " ", "\n"}

TextsUpTo(n) == UNION {[1..k -> Alphabet] : k \in 0..n}

ThreeParagraphs == <<"a", "\n", "\n", "a", " ", "\n", "\n", "a">>

ChunkTexts == TextsUpTo(MaxTextLen) \cup ScaledTexts \cup {ThreeParagraphs}

InitChunk ==
  /\ openai = FALSE
  /\ qdrant = <<>>
  /\ indexedDocuments = <<>>
  /\ uploads = {}
  /\ pc = [r \in Reqs |-> "idle"]
  /\ \E text \in ChunkTexts, chunkSize \in 1..MaxChunkSize, overlap \in 0..MaxOverlap :
       loc = [r \in Reqs |->
                IF r = Caller
                THEN [Locals0 EXCEPT !.kind = "chunk", !.owner = r,
                                     !.text = text, !.chunkSize = chunkSize,
                                     !.overlap = overlap]
                ELSE Locals0]
  /\ tasks = [r \in Reqs |-> <<>>]

\* splitTextIntoChunks(text, chunkSize, overlap, metadata) returns its chunks
CallSplitTextIntoChunks(r) ==
  /\ pc[r] = "idle"
  /\ loc[r].kind = "chunk"
  /\ LET l == loc[r]
         chunks == splitTextIntoChunks(l.text, l.chunkSize, l.overlap,
                                       l.metadata, l.owner)
     IN Suspend(r, Return([l EXCEPT !.chunks = chunks], chunks))
  /\ UNCHANGED <<openai, qdrant, indexedDocuments, uploads>>

NextChunk == CallSplitTextIntoChunks(Caller)

SpecChunk == InitChunk /\ [][NextChunk]_vars

\* C14: every chunk splitTextIntoChunks returns has a content of at least
\* one non-whitespace character.
C14_NoEmptyChunk ==
  \A r \in Reqs :
    Returned(r, "chunk") =>
      \A k \in 1..Len(loc[r].result) : Trim(loc[r].result[k].content) # <<>>


\* the call of request r was given the empty text / a text shorter than
\* chunkSize
ShortText(r) == loc[r].text # <<>> /\ Len(loc[r].text) < loc[r].chunkSize

\* C15 as stated: the empty text gives no chunk, and every text shorter than
\* chunkSize gives exactly one chunk, whose content is the trimmed text.
C15_ShortTextIsOneChunk ==
  \A r \in Reqs :
    Returned(r, "chunk") =>
      /\ loc[r].text = <<>> => loc[r].result = <<>>
      /\ ShortText(r) =>
           /\ Len(loc[r].result) = 1
           /\ loc[r].result[1].content = Trim(loc[r].text)

\* C15 amended: the empty text gives no chunk; a text shorter than chunkSize
\* gives no chunk when it is white space only, and otherwise exactly one
\* chunk, whose content is the text's paragraphs joined by one blank line
\* and trimmed (the trimmed text itself when its paragraph breaks are
\* exactly two newlines).
C15_ShortTextJoined ==
  \A r \in Reqs :
    Returned(r, "chunk") =>
      /\ loc[r].text = <<>> => loc[r].result = <<>>
      /\ ShortText(r) =>
           LET joined == Join(SplitParagraphs(loc[r].text), <<"\n", "\n">>)
           IN IF Trim(loc[r].text) = <<>>
              THEN loc[r].result = <<>>
              ELSE /\ Len(loc[r].result) = 1
                   /\ loc[r].result[1].content = Trim(joined)
                   /\ joined = loc[r].text =>
                        loc[r].result[1].content = Trim(loc[r].text)

\* a short text of two paragraphs has come back as one chunk
C15_Witness ==
  \E r \in Reqs :
    /\ Returned(r, "chunk")
    /\ ShortText(r)
    /\ Len(SplitParagraphs(loc[r].text)) = 2
    /\ \A k \in 1..2 : Trim(SplitParagraphs(loc[r].text)[k]) # <<>>
    /\ Len(loc[r].result) = 1
    /\ loc[r].result[1].content = Trim(loc[r].text)


\* no paragraph of the text given to request r is longer than chunkSize
NoOversizedParagraph(r) ==
  \A k \in 1..Len(SplitParagraphs(loc[r].text)) :
    Len(SplitParagraphs(loc[r].text)[k]) <= loc[r].chunkSize

\* C16: when no paragraph of the text is longer than chunkSize, every chunk
\* returned has a content of at most chunkSize + overlap characters.
C16_ChunkLengthBounded ==
  \A r \in Reqs :
    Returned(r, "chunk") /\ NoOversizedParagraph(r) =>
      \A k \in 1..Len(loc[r].result) :
        Len(loc[r].result[k].content) <= loc[r].chunkSize + loc[r].overlap


RECURSIVE Closings(_, _, _, _)
\* the steps of the loop that closed a buffer: the buffer closed, the
\* paragraph that did not fit, and the buffer opened
Closings(st, paragraphs, chunkSize, overlap) ==
  IF paragraphs = <<>> THEN <<>>
  ELSE LET nx == ChunkStep(st, Head(paragraphs), chunkSize, overlap)
           rest == Closings(nx, Tail(paragraphs), chunkSize, overlap)
       IN IF Len(nx.chunks) > Len(st.chunks)
          THEN <<[closed |-> st.currentChunk, paragraph |-> Head(paragraphs),
                  opened |-> nx.currentChunk]>> \o rest
          ELSE rest

ClosingsOf(r) ==
  IF loc[r].text = <<>> THEN <<>>
  ELSE Closings([chunks |-> <<>>, currentChunk |-> <<>>],
                SplitParagraphs(loc[r].text), loc[r].chunkSize, loc[r].overlap)

\* the last n and the first n characters of s
LastChars(s, n) == SubSeq(s, Len(s) - n + 1, Len(s))
FirstChars(s, n) == SubSeq(s, 1, n)

\* C17: a buffer opened after a closing is the last min(overlap, length)
\* characters of the closed buffer, one space, and the new paragraph, for
\* every overlap >= 0; and two consecutive chunks returned share a non-empty
\* piece of at most overlap characters, suffix of the first and prefix of the
\* second.
C17_OverlapCarried ==
  \A r \in Reqs :
    Returned(r, "chunk") =>
      /\ \A k \in 1..Len(ClosingsOf(r)) :
           LET c == ClosingsOf(r)[k]
           IN c.opened = LastChars(c.closed, Min(loc[r].overlap, Len(c.closed)))
                           \o <<" ">> \o c.paragraph
      /\ \A k \in 1..(Len(loc[r].result) - 1) :
           \E n \in 1..loc[r].overlap :
             /\ n <= Len(loc[r].result[k].content)
             /\ n <= Len(loc[r].result[k + 1].content)
             /\ LastChars(loc[r].result[k].content, n)
                  = FirstChars(loc[r].result[k + 1].content, n)


RECURSIVE Buffers(_, _, _, _, _)
\* the buffers of the loop in order, the last one included, each with the
\* length of the prefix injected when it was opened (overlap text and space)
Buffers(st, prefix, paragraphs, chunkSize, overlap) ==
  IF paragraphs = <<>> THEN <<[buffer |-> st.currentChunk, prefix |-> prefix]>>
  ELSE LET nx == ChunkStep(st, Head(paragraphs), chunkSize, overlap)
       IN IF Len(nx.chunks) > Len(st.chunks)
          THEN <<[buffer |-> st.currentChunk, prefix |-> prefix]>>
                 \o Buffers(nx, Len(nx.currentChunk) - Len(Head(paragraphs)),
                            Tail(paragraphs), chunkSize, overlap)
          ELSE Buffers(nx, prefix, Tail(paragraphs), chunkSize, overlap)

BuffersOf(r) ==
  IF loc[r].text = <<>> THEN <<>>
  ELSE Buffers([chunks |-> <<>>, currentChunk |-> <<>>], 0,
               SplitParagraphs(loc[r].text), loc[r].chunkSize, loc[r].overlap)

RECURSIVE Flatten(_)
Flatten(seqs) == IF seqs = <<>> THEN <<>> ELSE Head(seqs) \o Flatten(Tail(seqs))

\* the paragraphs of a text, each trimmed, those of white space only left out
ParagraphsOf(text) ==
  LET ps == SplitParagraphs(text)
  IN Flatten([k \in 1..Len(ps) |->
                IF Trim(ps[k]) = <<>> THEN <<>> ELSE <<Trim(ps[k])>>])

\* chunk k of request r without the prefix injected into its buffer
WithoutPrefix(r, k) ==
  LET b == BuffersOf(r)[k]
      own == Trim(SubSeq(b.buffer, b.prefix + 1, Len(b.buffer)))
  IN LastChars(loc[r].result[k].content, Len(own))

\* C18: the chunks returned, each without its injected overlap prefix, hold
\* in order the paragraphs of the text, every paragraph once (paragraphs are
\* compared trimmed, as chunks are; a paragraph of white space only has no
\* content and is not counted).
C18_ParagraphsPreserved ==
  \A r \in Reqs :
    Returned(r, "chunk") =>
      /\ Len(loc[r].result) <= Len(BuffersOf(r))
      /\ Flatten([k \in 1..Len(loc[r].result) |-> ParagraphsOf(WithoutPrefix(r, k))])
           = ParagraphsOf(loc[r].text)

\* three paragraphs have come back in three chunks, the later two with an
\* injected prefix
C18_Witness ==
  \E r \in Reqs :
    /\ Returned(r, "chunk")
    /\ Len(ParagraphsOf(loc[r].text)) = 3
    /\ Len(loc[r].result) = 3
    /\ loc[r].overlap >= 1
    /\ \A k \in 2..3 : WithoutPrefix(r, k) # loc[r].result[k].content


\* request r is past createCollection / past addDocuments, and Qdrant served
\* every call it made (none failed for a reason of Qdrant's own)
PastCreateCollection(r) ==
  /\ loc[r].kind = "index"
  /\ pc[r] \in {"upsert", "unlink", "ret"}
  /\ loc[r].collectionResult.error \notin {"none", "getCollections", "createCollection"}

PastAddDocuments(r) ==
  /\ PastCreateCollection(r)
  /\ pc[r] \in {"unlink", "ret"}
  /\ loc[r].storeResult.error # "upsert"

\* C19: under every interleaving of concurrent indexDocument calls served by
\* Qdrant, each call's createCollection returns success, flagged created or
\* existed, the collection exists afterwards, and each call's chunks are all
\* stored.
C19_CreateRaceSafe ==
  \A r \in Reqs :
    /\ PastCreateCollection(r) =>
         /\ loc[r].collectionResult.success
         /\ loc[r].collectionResult.error \in {"created", "existed"}
         /\ Exists(qdrant, GLOBAL_COLLECTION_NAME)
    /\ PastAddDocuments(r) =>
         /\ loc[r].storeResult.success
         /\ Cardinality(StoredPoints(loc[r].documentId))
              = Len(loc[r].processedDocuments)

\* a request that fails validation: an upload with no file, with an extension
\* outside the supported ones or past the size limit; a chat with no query or
\* an empty one
FailsValidation(req) ==
  \/ /\ req.route = "index"
     /\ \/ ~req.present
        \/ ToLowerCase(req.file.originalname.ext) \notin allowedFileTypes
        \/ req.file.size > FileSizeLimit
  \/ /\ req.route = "chat"
     /\ (~req.present \/ req.query = <<>>)

\* indexDocument / generateChatResponse was never entered for request r: none
\* of their locals was written
NeverInvoked(r) ==
  loc[r] = [Locals0 EXCEPT !.kind = "rejected", !.owner = r,
                           !.req = loc[r].req, !.result = loc[r].result]

\* C20: an upload that fails validation (unsupported extension, oversized
\* file, missing file) and a chat with an empty or missing query are rejected
\* with a client error before any processing: a request is rejected exactly
\* for failing validation, what indexDocument and generateChatResponse are
\* invoked with has passed it, and the rejection changes neither the registry
\* nor the collection.
C20_InvalidRejectedUnprocessed ==
  /\ [](\A r \in Reqs :
          /\ loc[r].kind = "rejected" =>
               /\ FailsValidation(loc[r].req)
               /\ pc[r] = "ret"
               /\ loc[r].result.status = 400
               /\ ~loc[r].result.success
               /\ NeverInvoked(r)
          /\ loc[r].kind = "index" =>
               ~FailsValidation([route |-> "index", present |-> loc[r].file # NoFile,
                                 file |-> loc[r].file])
          /\ loc[r].kind = "chat" =>
               ~FailsValidation([route |-> "chat", present |-> TRUE,
                                 query |-> loc[r].query]))
  /\ [][\A r \in Reqs :
          loc[r].kind # "rejected" /\ loc'[r].kind = "rejected" =>
            /\ qdrant' = qdrant
            /\ indexedDocuments' = indexedDocuments]_vars

\* a program was uploaded and rejected while the registry and the collection
\* held a document
C20_Witness ==
  /\ indexedDocuments # <<>>
  /\ qdrant # <<>>
  /\ \E r \in Reqs :
       /\ Returned(r, "rejected")
       /\ loc[r].req.route = "index"
       /\ loc[r].req.present
       /\ loc[r].req.file.originalname.ext = ".exe"

(***************************************************************************)
(* Claims about the attempts of one generateEmbedding call, checked under  *)
(* SpecEmbed.                                                              *)
(***************************************************************************)
\* request r is a direct call of generateEmbedding, running or returned
EmbedCall(r) == loc[r].kind = "embed" /\ pc[r] \in {"e_wait", "ret"}

\* C21: with a provider configured one embed call issues at most `retries`
\* provider requests; it stops at the first attempt that succeeds (every
\* request before it failed and was followed by a wait, none is issued after
\* it) and returns that provider vector; when it returns the mock, it has
\* issued exactly `retries` requests.  With no provider configured it issues
\* no provider request, waits for no backoff and has the mock at once.
C21_AtMostRetriesRequests ==
  /\ [](\A r \in Reqs :
          EmbedCall(r) =>
            LET t == tasks[r][1]
            IN /\ openai =>
                    /\ t.requests <= loc[r].retries
                    /\ (t.st = "done" /\ t.embedding.src = "openai") =>
                         /\ t.embedding = ProviderEmbedding(t.text)
                         /\ t.waits = t.requests - 1
                    /\ (t.st = "done" /\ t.embedding.src = "mock") =>
                         t.requests = loc[r].retries
                    /\ Returned(r, "embed") => loc[r].result = t.embedding
               /\ ~openai =>
                    /\ t.requests = 0
                    /\ t.waits = 0
                    /\ t.st = "done"
                    /\ t.embedding = generateMockEmbedding)
  /\ [][\A r \in Reqs :
          (EmbedCall(r) /\ tasks[r][1].st = "done") =>
            /\ tasks'[r][1].requests = tasks[r][1].requests
            /\ tasks'[r][1].embedding = tasks[r][1].embedding]_vars

\* a call with MaxRetries attempts allowed has returned the provider's vector
\* of its second request, the first having failed
C21_Witness ==
  /\ openai
  /\ \E r \in Reqs :
       /\ Returned(r, "embed")
       /\ loc[r].retries = MaxRetries
       /\ tasks[r][1].requests = 2
       /\ loc[r].result.src = "openai"

\* min(base * 2^(a-1), 15000) with base 2000 for a failure classified as a
\* rate limit and 1000 for any other, a timeout being one of the others
ExpectedWait(lastError, a) ==
  Min((IF lastError = "rate limit" THEN 2000 ELSE 1000) * (2 ^ (a - 1)), 15000)

\* C22: after a failed attempt a < retries the wait before attempt a+1 is
\* min(base * 2^(a-1), 15000) ms, base being 2000 for a rate-limit failure and
\* 1000 otherwise, a timeout included; there is exactly one wait between
\* consecutive attempts and none after the final failed attempt.
C22_BackoffWait ==
  \A r \in Reqs :
    EmbedCall(r) =>
      LET t == tasks[r][1]
      IN /\ t.st = "backoff" =>
              /\ t.attempt < t.retries
              /\ t.wait = ExpectedWait(t.lastError, t.attempt)
              /\ t.waits = t.requests
         /\ t.st = "await" => t.waits = t.requests - 1
         /\ (t.st = "done" /\ t.requests > 0) => t.waits = t.requests - 1

(***************************************************************************)
(* indexDocument on a scaled document of more chunks than one batch holds, *)
(* with a provider that answers every request, by an embedding or by an    *)
(* error, in any order across the concurrent calls.                        *)
(***************************************************************************)
SixParagraphs ==
  <<"a", "b", "\n", "\n", "c", "d", "\n", "\n", "e", "f", "\n", "\n",
    "g", "h", "\n", "\n", "i", "j", "\n", "\n", "k", "l">>

BatchFiles(r) == {[originalname |-> [stem |-> "paper", ext |-> ".PDF"],
                   path |-> UploadPath(r), size |-> SmallSize,
                   text |-> t] : t \in {SixParagraphs, TwoParagraphs}}

IndexBatches(r) ==
  /\ pc[r] = "idle"
  /\ \E file \in BatchFiles(r) :
       EnterIndexDocument(r, file, ScaledChunkSize, ScaledOverlap,
                          DefaultMaxChunks)

NextBatches ==
  \/ IndexBatches(Caller)
  \/ ExtractSettled(Caller)
  \/ BatchSettled(Caller)
  \/ CollectionsListed(Caller)
  \/ CollectionCreated(Caller)
  \/ UpsertSettled(Caller)
  \/ Unlinked(Caller)
  \/ \E k \in 1..BATCH_SIZE :
       \/ EmbeddingAnswered(Caller, k)
       \/ BackoffElapsed(Caller, k)

SpecBatches == Init /\ [][NextBatches]_vars

\* the embedding of chunk c: the provider's vector of its content, or the mock
OwnEmbedding(c, embedding) ==
  embedding \in {ProviderEmbedding(c.content), generateMockEmbedding}

\* C23: within one indexDocument call the next embedding batch is started,
\* and addDocuments is entered, only by a step taken when every embedding of
\* the running batch has resolved; a running batch holds the calls of its own
\* chunks and every earlier chunk has its result; the upsert is issued once,
\* after all batches, with the embedded chunks in chunk order, each carrying
\* the embedding of its own chunk, in whatever order the calls completed.
C23_BatchesInOrder ==
  /\ [](\A r \in Reqs :
          loc[r].kind = "index" =>
            LET l == loc[r]
            IN /\ pc[r] = "embed" =>
                    /\ l.i < Len(l.chunks)
                    /\ Len(tasks[r]) = BatchLen(l)
                    /\ Len(tasks[r]) <= BATCH_SIZE
                    /\ \A k \in 1..Len(tasks[r]) :
                         tasks[r][k].text = l.chunks[l.i + k].content
                    /\ Len(l.chunksWithEmbeddings) = l.i
               /\ pc[r] \in {"cc_list", "cc_create", "upsert"} =>
                    /\ Len(l.processedDocuments) = Len(l.chunks)
                    /\ \A k \in 1..Len(l.chunks) :
                         /\ l.processedDocuments[k].id = l.chunks[k].id
                         /\ l.processedDocuments[k].content = l.chunks[k].content
                         /\ OwnEmbedding(l.chunks[k],
                                         l.processedDocuments[k].embedding)
               /\ pc[r] = "upsert" =>
                    /\ l.j = 0
                    /\ Len(l.points) = Len(l.chunks)
                    /\ \A k \in 1..Len(l.chunks) :
                         /\ l.points[k].payload.original_id = l.chunks[k].id
                         /\ l.points[k].payload.content = l.chunks[k].content
                         /\ OwnEmbedding(l.chunks[k], l.points[k].vector))
  /\ [][\A r \in Reqs :
          (pc[r] = "embed" /\ (pc'[r] # "embed" \/ loc'[r].i # loc[r].i)) =>
            \A k \in 1..Len(tasks[r]) : Settled(tasks[r][k])]_vars

\* the upsert of a document of two batches is issued, with a provider vector
\* and a mock among its embeddings
C23_Witness ==
  \E r \in Reqs :
    /\ pc[r] = "upsert"
    /\ Len(loc[r].points) > BATCH_SIZE
    /\ \E k \in 1..Len(loc[r].points) : loc[r].points[k].vector.src = "openai"
    /\ \E k \in 1..Len(loc[r].points) : loc[r].points[k].vector.src = "mock"

(***************************************************************************)
(* addDocuments called on its own with up to MaxDocuments documents, the   *)
(* global collection being absent or empty.                                *)
(***************************************************************************)
\* documents with embeddings as processFile returns them, every second id
\* being no UUID
SampleDocuments(n, owner) ==
  [k \in 1..n |->
     [id |-> IF k % 2 = 1 THEN uuid("chunk", owner, k)
             ELSE [valid |-> FALSE, val |-> <<"doc", owner, k>>],
      content |-> <<"X">>, metadata |-> NoMetadata,
      embedding |-> generateMockEmbedding]]

InitStore ==
  /\ openai \in BOOLEAN
  /\ qdrant \in {<<>>, (GLOBAL_COLLECTION_NAME :> {})}
  /\ indexedDocuments = <<>>
  /\ uploads = {}
  /\ pc = [r \in Reqs |-> "idle"]
  /\ loc = [r \in Reqs |-> Locals0]
  /\ tasks = [r \in Reqs |-> <<>>]

\* vectorStore.addDocuments(GLOBAL_COLLECTION_NAME, documents) is called
CallAddDocuments(r) ==
  /\ pc[r] = "idle"
  /\ \E n \in 0..MaxDocuments :
       Suspend(r, EnterAddDocuments(
                    [Locals0 EXCEPT !.kind = "store", !.owner = r],
                    SampleDocuments(n, r)))
  /\ UNCHANGED <<openai, qdrant, indexedDocuments, uploads>>

NextStore ==
  \/ CallAddDocuments(Caller)
  \/ CollectionsListed(Caller)
  \/ CollectionCreated(Caller)
  \/ UpsertSettled(Caller)

SpecStore == InitStore /\ [][NextStore]_vars

\* the points of the call's positions a..b that the global collection holds
StoredOf(r, a, b) ==
  {k \in a..b : Exists(qdrant, GLOBAL_COLLECTION_NAME)
                  /\ loc[r].points[k] \in qdrant[GLOBAL_COLLECTION_NAME]}

\* C24: addDocuments writes the points in consecutive batches of at most
\* 100: when the batch at offset j is issued every point before j has been
\* acknowledged and stored and none from j on has been written; when a batch
\* fails the call returns success:false with the error, no later batch is
\* issued and the points of the batches before it stay stored; when no batch
\* fails every point is stored.
C24_UpsertBatches ==
  /\ [](\A r \in Reqs :
          loc[r].kind = "store" =>
            LET l == loc[r]
                n == Len(l.points)
            IN /\ pc[r] = "upsert" =>
                    /\ l.j % 100 = 0
                    /\ l.j < n
                    /\ StoredOf(r, 1, n) = 1..l.j
               /\ (pc[r] = "ret" /\ l.collectionResult.success) =>
                    IF l.result.success
                    THEN StoredOf(r, 1, n) = 1..n
                    ELSE /\ l.result.error = "upsert"
                         /\ l.j % 100 = 0
                         /\ l.j < n
                         /\ StoredOf(r, 1, n) = 1..l.j)
  /\ [][\A r \in Reqs :
          (loc[r].kind = "store" /\ pc[r] = "upsert") =>
            /\ Cardinality(StoredOf(r, 1, Len(loc[r].points))')
                 - Cardinality(StoredOf(r, 1, Len(loc[r].points))) <= 100
            /\ StoredOf(r, 1, Len(loc[r].points))
                 \subseteq StoredOf(r, 1, Len(loc[r].points))']_vars

\* the third batch of a call failed: the call returned success:false and the
\* 200 points of the first two batches are stored
C24_Witness ==
  \E r \in Reqs :
    /\ Returned(r, "store")
    /\ ~loc[r].result.success
    /\ loc[r].j = 200
    /\ StoredOf(r, 1, Len(loc[r].points)) = 1..200

\* indexDocument of request r has registered its document and returned
ReachedRegistration(r) == Returned(r, "index") /\ loc[r].result.success

\* C25: registry inserts are additive under every interleaving of concurrent
\* indexDocument calls: each call that reaches registration has added one
\* entry under a document id no other call uses, no step overwrites, modifies
\* or removes an entry, and after n such calls the registry (empty at the
\* start) holds exactly n entries.
C25_RegistryAdditive ==
  /\ [](/\ Cardinality(DOMAIN indexedDocuments)
             = Cardinality({r \in Reqs : ReachedRegistration(r)})
        /\ \A r \in Reqs :
             ReachedRegistration(r) =>
               /\ loc[r].documentId \in DOMAIN indexedDocuments
               /\ indexedDocuments[loc[r].documentId].documentId
                    = loc[r].documentId
               /\ indexedDocuments[loc[r].documentId].filename
                    = loc[r].file.originalname
               /\ indexedDocuments[loc[r].documentId].chunksCount
                    = Len(loc[r].processedDocuments)
        /\ \A r, q \in Reqs :
             (r # q /\ loc[r].kind = "index" /\ loc[q].kind = "index") =>
               loc[r].documentId # loc[q].documentId)
  /\ [][/\ \A d \in DOMAIN indexedDocuments :
             /\ d \in DOMAIN indexedDocuments'
             /\ indexedDocuments'[d] = indexedDocuments[d]
        /\ Cardinality(DOMAIN indexedDocuments')
             = Cardinality(DOMAIN indexedDocuments)
                 + Cardinality({r \in Reqs : pc[r] = "unlink" /\ pc'[r] = "ret"})
       ]_vars

\* two concurrent uploads of files of the same name are both registered
C25_Witness ==
  /\ Cardinality(DOMAIN indexedDocuments) = 2
  /\ \E r, q \in Reqs :
       /\ r # q
       /\ ReachedRegistration(r)
       /\ ReachedRegistration(q)
       /\ loc[r].file.originalname = loc[q].file.originalname

(***************************************************************************)
(* addDocuments by one caller and search by another, over documents whose  *)
(* ids are UUIDs, other strings, or the empty string.                      *)
(***************************************************************************)
Searcher == CHOOSE r \in Reqs : \A q \in Reqs : q <= r

\* a UUID, a string that is none, and the empty string (val is the string)
SampleIds(owner, k) ==
  {uuid("chunk", owner, k), [valid |-> FALSE, val |-> <<"doc", k>>], NoId}

\* one or two documents, told apart by their content
IdDocuments(owner) ==
  LET doc(k, id) == [id |-> id,
                     content |-> IF k = 1 THEN <<"X">> ELSE <<"Y">>,
                     metadata |-> NoMetadata,
                     embedding |-> generateMockEmbedding]
  IN {<<doc(1, a)>> : a \in SampleIds(owner, 1)}
       \cup {<<doc(1, a), doc(2, b)>> :
               a \in SampleIds(owner, 1), b \in SampleIds(owner, 2)}

CallAddIdDocuments(r) ==
  /\ pc[r] = "idle"
  /\ \E documents \in IdDocuments(r) :
       Suspend(r, EnterAddDocuments(
                    [Locals0 EXCEPT !.kind = "store", !.owner = r],
                    documents))
  /\ UNCHANGED <<openai, qdrant, indexedDocuments, uploads>>

NextRoundTrip ==
  \/ CallAddIdDocuments(Caller)
  \/ CollectionsListed(Caller)
  \/ CollectionCreated(Caller)
  \/ UpsertSettled(Caller)
  \/ CallSearch(Searcher)
  \/ SearchListed(Searcher)
  \/ SearchAnswered(Searcher)
  \/ SearchTimedOut(Searcher)

SpecRoundTrip == Init /\ [][NextRoundTrip]_vars

\* C26: a document whose id is a valid UUID is stored under that id, a
\* document with any other id under a freshly generated one, the original id
\* is kept in the payload in both cases, and the id of every search result
\* is the original id of the document that was upserted.
C26_IdRoundTrip ==
  /\ \A r \in Reqs :
       (loc[r].kind = "store" /\ pc[r] \in {"upsert", "ret"}
          /\ loc[r].collectionResult.success) =>
         \A k \in 1..Len(loc[r].points) :
           LET d == loc[r].processedDocuments[k]
               p == loc[r].points[k]
           IN /\ d.id.valid => p.id = d.id
              /\ ~d.id.valid =>
                   /\ p.id.valid
                   /\ \A j \in 1..Len(loc[r].processedDocuments) :
                        p.id # loc[r].processedDocuments[j].id
              /\ p.payload.original_id = d.id
  /\ \A q \in Reqs :
       Returned(q, "search") =>
         \A k \in 1..Len(loc[q].result) :
           \E r \in Reqs :
             /\ loc[r].kind = "store"
             /\ \E j \in 1..Len(loc[r].processedDocuments) :
                  /\ loc[r].processedDocuments[j].content
                       = loc[q].result[k].content
                  /\ loc[r].processedDocuments[j].id = loc[q].result[k].id

RECURSIVE Outstanding(_)
\* the createEmbedding requests of the calls ts that the provider has not
\* answered: the one each running attempt awaits and the abandoned ones
Outstanding(ts) ==
  IF ts = <<>> THEN 0
  ELSE (IF Head(ts).st = "await" THEN 1 ELSE 0) + Head(ts).abandoned
         + Outstanding(Tail(ts))

\* C27: during one indexDocument call at most 5 (the batch size) embedding
\* provider requests are in flight at any moment, whatever the provider
\* does, attempts that time out and are retried while the timed-out request
\* is still outstanding included.
C27_AtMostFiveInFlight ==
  \A r \in Reqs :
    loc[r].kind = "index" => Outstanding(tasks[r]) <= 5

\* the step is one of request r, a chat or a status request
StepOfReader(r) ==
  /\ <<pc[r], loc[r], tasks[r]>> # <<pc'[r], loc'[r], tasks'[r]>>
  /\ loc'[r].kind \in {"chat", "status"}

\* C28: chat(query) and status() are read-only: whatever the outcome
\* (an answer, a failing provider, a failing search), no step of theirs
\* changes the document registry or the contents of the global collection,
\* and none creates the collection.
C28_ChatAndStatusReadOnly ==
  [][\A r \in Reqs :
       StepOfReader(r) =>
         /\ indexedDocuments' = indexedDocuments
         /\ qdrant' = qdrant
         /\ Exists(qdrant', GLOBAL_COLLECTION_NAME)
              = Exists(qdrant, GLOBAL_COLLECTION_NAME)]_vars

\* a chat has found stored chunks and returned its answer while the registry
\* holds a document
C28_Witness ==
  /\ indexedDocuments # <<>>
  /\ \E r \in Reqs :
       /\ Returned(r, "chat")
       /\ loc[r].result.success
       /\ loc[r].searched = "found"
       /\ Len(loc[r].searchResults) > 0

=============================================================================
